---- MODULE Spec2Model ----
(***************************************************************************)
(* Model of rag-service/app/main.py: the POST /ask endpoint.               *)
(*                                                                         *)
(*   app = FastAPI()                                                       *)
(*   @app.post("/ask")                                                     *)
(*   def ask(req: QuestionRequest):                                        *)
(*       return ask_question(req.question)                                 *)
(*                                                                         *)
(* Every request runs the handler in its own invocation (own frame: req,   *)
(* the pending call, the value the call produced).  The handler blocks in  *)
(* ask_question, so it is split at the call boundary: ask_call is the      *)
(* handler up to the call, ask_return / ask_propagate is the handler from  *)
(* the completion of the call to the end.  ask_question (rag_engine) and   *)
(* QuestionRequest (schemas) are not part of main.py; they are modelled    *)
(* as the collaborators the specification describes.                       *)
(***************************************************************************)
EXTENDS Naturals, Sequences, FiniteSets

VARIABLES
    routes,     \* the route table of app (module state of main.py)
    pc,         \* pc[r]: where request r is in its life
    body,       \* body[r]: the raw payload of request r (option)
    req,        \* req[r]: the handler's parameter, a QuestionRequest (option)
    cur,        \* cur[r]: index in calls of the call r's handler is blocked in, 0 if none
    ret,        \* ret[r]: what that call produced, on r's frame (option)
    response,   \* response[r]: the outcome of request r (option)
    calls,      \* every invocation of ask_question, in call order (observer)
    history     \* what each finished request was and got (observer)

vars == <<routes, pc, body, req, cur, ret, response, calls, history>>

\* ------------------------------------------------------------------ bounds

MaxRequests == 2

Requests == 1..MaxRequests

\* ------------------------------------------------------------------ values

None == <<>>
Some(x) == <<x>>
Get(o) == o[1]

Questions == {"q1", "q2"}
Answers == {"a1", "a2"}
Errors == {"e1"}

\* The values a payload may give the field: text, or something that is no text.
JsonValues == {<<"str", q>> : q \in Questions} \cup {<<"num", "7">>}

\* A payload is a JSON object, a set of <<field, value>> pairs: without the
\* field question, or with it.
Payloads == {{}} \cup {{<<"question", v>>} : v \in JsonValues}

Pending == <<"pending", "">>
Value(a) == <<"value", a>>
Raise(e) == <<"raise", e>>

PostAsk == <<"POST", "/ask">>

\* ------------------------------------------------------------ collaborators

\* schemas.QuestionRequest: one required text field, question.
IsQuestionRequest(b) ==
    \E p \in b : p[1] = "question" /\ p[2][1] = "str"

\* The QuestionRequest object the framework builds from a payload that has the shape.
QuestionRequest(b) ==
    [question |-> (CHOOSE p \in b : p[1] = "question" /\ p[2][1] = "str")[2][2]]

\* The indices of the ask_question calls made for request r.
CallsOf(r) == {i \in 1..Len(calls) : calls[i].rid = r}

\* ------------------------------------------------------------------ state

Init ==
    /\ routes = {PostAsk}
    /\ pc = [r \in Requests |-> "new"]
    /\ body = [r \in Requests |-> None]
    /\ req = [r \in Requests |-> None]
    /\ cur = [r \in Requests |-> 0]
    /\ ret = [r \in Requests |-> None]
    /\ response = [r \in Requests |-> None]
    /\ calls = <<>>
    /\ history = {}

\* A client sends request r with payload b to POST /ask.
Arrive(r, b) ==
    /\ pc[r] = "new"
    /\ PostAsk \in routes
    /\ body' = [body EXCEPT ![r] = Some(b)]
    /\ pc' = [pc EXCEPT ![r] = "received"]
    /\ UNCHANGED <<routes, req, cur, ret, response, calls, history>>

\* The framework binds the payload to the handler's parameter without
\* checking its shape; a payload without a text question gives an empty one.
Dispatch_unvalidated(r) ==
    /\ pc[r] = "received"
    /\ req' = [req EXCEPT ![r] =
                 Some(IF IsQuestionRequest(Get(body[r]))
                      THEN QuestionRequest(Get(body[r]))
                      ELSE [question |-> "q1"])]
    /\ pc' = [pc EXCEPT ![r] = "in_handler"]
    /\ UNCHANGED <<routes, body, cur, ret, response, calls, history>>

\* def ask(req: QuestionRequest): the framework binds the payload to the
\* parameter req.  A payload of the QuestionRequest shape becomes the object
\* the handler is entered with; any other payload is answered with a client
\* error and the handler is not entered.
Dispatch(r) ==
    /\ pc[r] = "received"
    /\ IF IsQuestionRequest(Get(body[r]))
       THEN /\ req' = [req EXCEPT ![r] = Some(QuestionRequest(Get(body[r])))]
            /\ pc' = [pc EXCEPT ![r] = "in_handler"]
            /\ UNCHANGED response
       ELSE /\ response' = [response EXCEPT ![r] =
                   Some([kind |-> "client_error", value |-> "validation", call |-> 0])]
            /\ pc' = [pc EXCEPT ![r] = "responded"]
            /\ UNCHANGED req
    /\ UNCHANGED <<routes, body, cur, ret, calls, history>>

\* The handler keeps the question in a variable shared by all invocations, and
\* the call reads it back: it may hold the question of another request in the handler.
ask_call_shared(r) ==
    /\ pc[r] = "in_handler"
    /\ \E s \in Requests :
          /\ pc[s] \in {"in_handler", "calling"}
          /\ calls' = Append(calls, [rid |-> r, arg |-> Get(req[s]).question,
                                     out |-> Pending])
    /\ cur' = [cur EXCEPT ![r] = Len(calls) + 1]
    /\ pc' = [pc EXCEPT ![r] = "calling"]
    /\ UNCHANGED <<routes, body, req, ret, response, history>>

\* The handler rewrites req.question in place before the call.
ask_call_mutates(r) ==
    /\ pc[r] = "in_handler"
    /\ req' = [req EXCEPT ![r] = Some([question |-> "q1"])]
    /\ calls' = Append(calls, [rid |-> r, arg |-> "q1", out |-> Pending])
    /\ cur' = [cur EXCEPT ![r] = Len(calls) + 1]
    /\ pc' = [pc EXCEPT ![r] = "calling"]
    /\ UNCHANGED <<routes, body, ret, response, history>>

\* ask, up to the call: evaluate req.question and invoke ask_question with it.
\* The invocation blocks until ask_question completes.
ask_call(r) ==
    /\ pc[r] = "in_handler"
    /\ calls' = Append(calls, [rid |-> r, arg |-> Get(req[r]).question,
                               out |-> Pending])
    /\ cur' = [cur EXCEPT ![r] = Len(calls) + 1]
    /\ pc' = [pc EXCEPT ![r] = "calling"]
    /\ UNCHANGED <<routes, body, req, ret, response, history>>

\* ask_question, called for request r, returns the value a.
AskQuestionReturns(r, a) ==
    /\ pc[r] = "calling"
    /\ calls' = [calls EXCEPT ![cur[r]].out = Value(a)]
    /\ ret' = [ret EXCEPT ![r] = Some([call |-> cur[r], out |-> Value(a)])]
    /\ pc' = [pc EXCEPT ![r] = "returned"]
    /\ UNCHANGED <<routes, body, req, cur, response, history>>

\* ask_question, called for request r, raises e.
AskQuestionRaises(r, e) ==
    /\ pc[r] = "calling"
    /\ calls' = [calls EXCEPT ![cur[r]].out = Raise(e)]
    /\ ret' = [ret EXCEPT ![r] = Some([call |-> cur[r], out |-> Raise(e)])]
    /\ pc' = [pc EXCEPT ![r] = "raised"]
    /\ UNCHANGED <<routes, body, req, cur, response, history>>

\* The handler wraps the result before returning it.
ask_return_wrapped(r) ==
    /\ pc[r] = "returned"
    /\ response' = [response EXCEPT ![r] =
          Some([kind |-> "ok", value |-> "wrapped", call |-> Get(ret[r]).call])]
    /\ pc' = [pc EXCEPT ![r] = "responded"]
    /\ UNCHANGED <<routes, body, req, cur, ret, calls, history>>

\* The handler remembers the questions it has answered and gives a repeated
\* question a canned reply instead of the result of its call.
ask_return_dedup(r) ==
    /\ pc[r] = "returned"
    /\ LET seen == {h.response.call : h \in history} \ {0}
           repeated == \E i \in seen : calls[i].arg = Get(req[r]).question
       IN response' = [response EXCEPT ![r] =
             Some([kind |-> "ok",
                   value |-> IF repeated THEN "duplicate" ELSE Get(ret[r]).out[2],
                   call |-> Get(ret[r]).call])]
    /\ pc' = [pc EXCEPT ![r] = "responded"]
    /\ UNCHANGED <<routes, body, req, cur, ret, calls, history>>

\* The handler gives up waiting: it may answer with a fallback while the call
\* is still running.
ask_return_timeout(r) ==
    /\ pc[r] \in {"calling", "returned"}
    /\ response' = [response EXCEPT ![r] =
          IF pc[r] = "returned"
          THEN Some([kind |-> "ok", value |-> Get(ret[r]).out[2],
                     call |-> Get(ret[r]).call])
          ELSE Some([kind |-> "ok", value |-> "timeout", call |-> cur[r]])]
    /\ pc' = [pc EXCEPT ![r] = "responded"]
    /\ UNCHANGED <<routes, body, req, cur, ret, calls, history>>

\* ask, from the return of the call: return ask_question(...) hands the value
\* the call returned to the framework as the response payload.
ask_return(r) ==
    /\ pc[r] = "returned"
    /\ response' = [response EXCEPT ![r] =
          Some([kind |-> "ok", value |-> Get(ret[r]).out[2],
                call |-> Get(ret[r]).call])]
    /\ pc' = [pc EXCEPT ![r] = "responded"]
    /\ UNCHANGED <<routes, body, req, cur, ret, calls, history>>

\* The handler catches the failure and answers with a fallback payload.
ask_propagate_fallback(r) ==
    /\ pc[r] = "raised"
    /\ response' = [response EXCEPT ![r] =
          Some([kind |-> "ok", value |-> "fallback", call |-> Get(ret[r]).call])]
    /\ pc' = [pc EXCEPT ![r] = "responded"]
    /\ UNCHANGED <<routes, body, req, cur, ret, calls, history>>

\* ask, when the call raised: there is no try around the call, so the exception
\* leaves the handler and the request ends in the framework's error outcome.
ask_propagate(r) ==
    /\ pc[r] = "raised"
    /\ response' = [response EXCEPT ![r] =
          Some([kind |-> "server_error", value |-> Get(ret[r]).out[2],
                call |-> Get(ret[r]).call])]
    /\ pc' = [pc EXCEPT ![r] = "responded"]
    /\ UNCHANGED <<routes, body, req, cur, ret, calls, history>>

\* The response is sent; the request object and the handler's frame are dropped.
Discard(r) ==
    /\ pc[r] = "responded"
    /\ history' = history \cup
          {[rid |-> r, body |-> Get(body[r]), response |-> Get(response[r])]}
    /\ body' = [body EXCEPT ![r] = None]
    /\ req' = [req EXCEPT ![r] = None]
    /\ cur' = [cur EXCEPT ![r] = 0]
    /\ ret' = [ret EXCEPT ![r] = None]
    /\ response' = [response EXCEPT ![r] = None]
    /\ pc' = [pc EXCEPT ![r] = "done"]
    /\ UNCHANGED <<routes, calls>>

Next ==
    \/ \E r \in Requests, b \in Payloads : Arrive(r, b)
    \/ \E r \in Requests : Dispatch(r)
    \/ \E r \in Requests : ask_call(r)
    \/ \E r \in Requests, a \in Answers : AskQuestionReturns(r, a)
    \/ \E r \in Requests, e \in Errors : AskQuestionRaises(r, e)
    \/ \E r \in Requests : ask_return(r)
    \/ \E r \in Requests : ask_propagate(r)
    \/ \E r \in Requests : Discard(r)

Spec == Init /\ [][Next]_vars

\* The framework and the interpreter keep running a handler that can take a
\* step; nothing makes ask_question complete.
Fairness ==
    \A r \in Requests :
        /\ WF_vars(Dispatch(r))
        /\ WF_vars(ask_call(r))
        /\ WF_vars(ask_return(r))
        /\ WF_vars(ask_propagate(r))

FairSpec == Spec /\ Fairness

\* ------------------------------------------------------------ observations

\* The payload has a text field question with value X.
HasQuestion(b, X) == <<"question", <<"str", X>>>> \in b

Valid(b) == \E X \in Questions : HasQuestion(b, X)

\* The requests that have their outcome: rid, payload, response.
Observed ==
    history \cup
    {[rid |-> r, body |-> Get(body[r]), response |-> Get(response[r])] :
        r \in {x \in Requests : pc[x] = "responded"}}

\* The outcomes of the ask_question calls made for request r.
OutcomesOf(r) == {calls[i].out : i \in CallsOf(r)}

\* ------------------------------------------------------------------ claims

\* C1: a request whose payload has a text field question with value X makes
\* exactly one call of ask_question, with argument exactly X, and when that
\* call returns a value the response payload is that very value, the result
\* of that very call.
C1_CalledOnceResultUnchanged ==
    /\ \A r \in Requests : \A X \in Questions :
          (body[r] # None /\ HasQuestion(Get(body[r]), X)) =>
             /\ Cardinality(CallsOf(r)) <= 1
             /\ \A i \in CallsOf(r) : calls[i].arg = X
             /\ pc[r] \in {"calling", "returned", "raised", "responded"}
                   => Cardinality(CallsOf(r)) = 1
    /\ \A o \in Observed : \A X \in Questions :
          HasQuestion(o.body, X) =>
             /\ Cardinality(CallsOf(o.rid)) = 1
             /\ \A i \in CallsOf(o.rid) :
                   /\ calls[i].arg = X
                   /\ \A a \in Answers :
                         calls[i].out = Value(a) =>
                            o.response = [kind |-> "ok", value |-> a, call |-> i]

C1_Witness ==
    \E o \in Observed :
        /\ HasQuestion(o.body, "q2")
        /\ o.response.kind = "ok"
        /\ o.response.value = "a2"
        /\ \E i \in CallsOf(o.rid) : calls[i].arg = "q2" /\ calls[i].out = Value("a2")

\* C2: a request whose payload has not the QuestionRequest shape (no question
\* field, or one that is no text) ends in a client error; its handler never
\* runs and ask_question is never called for it.
C2_InvalidPayloadRejected ==
    /\ \A r \in Requests :
          (body[r] # None /\ ~Valid(Get(body[r]))) =>
             /\ pc[r] \in {"received", "responded"}
             /\ req[r] = None
             /\ CallsOf(r) = {}
    /\ \A o \in Observed :
          ~Valid(o.body) =>
             /\ o.response.kind = "client_error"
             /\ CallsOf(o.rid) = {}

C2_Witness ==
    /\ \E o \in history : o.body = {} /\ o.response.kind = "client_error"
    /\ \E o \in Observed : o.body # {} /\ ~Valid(o.body)
    /\ calls = <<>>

\* C3: when the ask_question call of a request raises, the request ends in the
\* framework's error outcome with that failure: the call is not repeated and
\* the request never gets a success or fallback payload.
C3_FailurePropagates ==
    /\ \A r \in Requests :
          pc[r] = "raised" =>
             /\ Cardinality(CallsOf(r)) = 1
             /\ response[r] = None
    /\ \A o \in Observed : \A i \in CallsOf(o.rid) : \A e \in Errors :
          calls[i].out = Raise(e) =>
             /\ CallsOf(o.rid) = {i}
             /\ o.response = [kind |-> "server_error", value |-> e, call |-> i]

C3_Witness ==
    \E o \in Observed :
        /\ o.response.kind = "server_error"
        /\ \E i \in CallsOf(o.rid) : calls[i].out = Raise("e1")

\* A request has a response only once the call made for it has completed.
ResponseAfterCompletion ==
    \A r \in Requests :
        /\ pc[r] \in {"in_handler", "calling"} => response[r] = None
        /\ (response[r] # None /\ Valid(Get(body[r]))) =>
              /\ ret[r] # None
              /\ Get(ret[r]).call \in CallsOf(r)
              /\ calls[Get(ret[r]).call].out # Pending

\* While its call is running a request can only stay blocked or see the call
\* complete: no timeout or cancellation answers it.
BlockedUntilCompletion ==
    \A r \in Requests :
        pc[r] = "calling" =>
           /\ pc'[r] \in {"calling", "returned", "raised"}
           /\ response'[r] = None

\* C4: the call is synchronous: a response is emitted only after the call of
\* its request returned or raised, a request whose call has not completed
\* gets no response, and (under fairness of the handler's own steps) a
\* request whose call completed eventually gets its response.
C4_SynchronousCall ==
    /\ []ResponseAfterCompletion
    /\ [][BlockedUntilCompletion]_vars
    /\ \A r \in Requests :
          (pc[r] \in {"returned", "raised"}) ~> (pc[r] = "responded")

C4_Witness ==
    \E r, s \in Requests :
        /\ pc[r] = "responded"
        /\ Get(response[r]).kind = "ok"
        /\ pc[s] = "calling"
        /\ cur[s] < Get(response[r]).call

\* C5: requests handled concurrently do not interfere: every call carries the
\* question of the request it is made for, and every response that comes from
\* a call is the result of the call made for that same request.
C5_NoInterference ==
    /\ \A r \in Requests :
          /\ cur[r] # 0 =>
                /\ calls[cur[r]].rid = r
                /\ calls[cur[r]].arg = Get(req[r]).question
                /\ HasQuestion(Get(body[r]), calls[cur[r]].arg)
          /\ ret[r] # None =>
                /\ Get(ret[r]).call = cur[r]
                /\ Get(ret[r]).out = calls[cur[r]].out
    /\ \A o \in Observed :
          o.response.call # 0 =>
             /\ calls[o.response.call].rid = o.rid
             /\ HasQuestion(o.body, calls[o.response.call].arg)
             /\ o.response.value = calls[o.response.call].out[2]

C5_Witness ==
    \E r, s \in Requests :
        /\ r # s
        /\ pc[r] = "responded"
        /\ pc[s] \in {"calling", "returned"}
        /\ cur[s] < cur[r]
        /\ Get(req[r]).question # Get(req[s]).question
        /\ Get(response[r]).kind = "ok"

\* What a step may do to the state of the service.
HandlerFrame ==
    /\ routes' = routes
    /\ \A r \in Requests :
          /\ (body[r] # None /\ body'[r] # None) => body'[r] = body[r]
          /\ (req[r] # None /\ req'[r] # None) => req'[r] = req[r]
          /\ pc'[r] = "done" =>
                /\ body'[r] = None
                /\ req'[r] = None
                /\ ret'[r] = None
                /\ cur'[r] = 0
                /\ response'[r] = None
    /\ calls' # calls =>
          \E r \in Requests :
             \/ /\ pc[r] = "in_handler"
                /\ pc'[r] = "calling"
                /\ CallsOf(r) = {}
                /\ calls' = Append(calls, [rid |-> r, arg |-> Get(req[r]).question,
                                           out |-> Pending])
             \/ /\ pc[r] = "calling"
                /\ pc'[r] \in {"returned", "raised"}
                /\ Len(calls') = Len(calls)
                /\ \A i \in 1..Len(calls) : i # cur[r] => calls'[i] = calls[i]

\* C6: the handler has no side effects of its own: a step of a request leaves
\* the route table alone, does not change the payload or the request object,
\* touches the state of ask_question only through the one call of the request,
\* and keeps nothing of the request once it is discarded.
C6_NoSideEffects == [][HandlerFrame]_vars

C6_Witness ==
    /\ \E r \in Requests : pc[r] = "done" /\ CallsOf(r) # {}
    /\ \E r \in Requests : pc[r] = "done" /\ CallsOf(r) = {}
    /\ \E i \in 1..Len(calls) : calls[i].out[1] = "raise"

\* C7: two requests with equal questions whose calls have the same outcome
\* have the same response outcome, whatever was handled before them.
C7_SameInputSameOutcome ==
    \A o1, o2 \in Observed :
        ( /\ Valid(o1.body)
          /\ Valid(o2.body)
          /\ \E X \in Questions : HasQuestion(o1.body, X) /\ HasQuestion(o2.body, X)
          /\ OutcomesOf(o1.rid) = OutcomesOf(o2.rid) )
        => /\ o1.response.kind = o2.response.kind
           /\ o1.response.value = o2.response.value

C7_Witness ==
    \E o1 \in history : \E o2 \in Observed :
        /\ o1.rid # o2.rid
        /\ HasQuestion(o1.body, "q1")
        /\ HasQuestion(o2.body, "q1")
        /\ OutcomesOf(o1.rid) = {Value("a1")}
        /\ OutcomesOf(o2.rid) = {Value("a1")}

====
